---- MODULE Spec2Model ----
(***************************************************************************)
(* Collaborative editing core of isolated-block-editor: the block-tree     *)
(* codec (algorithms/yjs.js), the per-session document state machine       *)
(* (yjs-doc.js) and the replicated document they drive.                    *)
(***************************************************************************)
EXTENDS Integers, Sequences, FiniteSets, Bags, TLC

VARIABLES
    state,    \* each session's connection state (yjs-doc.js: let state)
    doc,      \* each session's replicated document (yjs-doc.js: const doc)
    net,      \* the messages handed to the transport and not yet received
    last,     \* history: the last encode (who, data, previous data, document before, writes)
    connAt,   \* history: per session, the number of edits made when it last called connect()
    count,    \* history: the numbers of calls made and of handshake messages emitted so far
    undoManager,  \* each session's undo manager (yjs-doc.js: let undoManager)
    selection,    \* each session's editor selection (getSelection / setSelection)
    ev,       \* history: the last operation, its outcome and what its change event did
    trail,    \* history: per session, the stack-item-added and stack-item-popped events
    arrays,          \* the arrays made for the listener lists of one document, by reference
    listeners,       \* the array the change listeners are in (yjs-doc.js: let listeners)
    stateListeners,  \* the array the state listeners are in (yjs-doc.js: let stateListeners)
    forEach,         \* the walk over a listener array in progress, and history: the walks so far
    disposers        \* history: the disposers handed out, and how often each was called

svars == <<state, doc, net, last, connAt, count, undoManager, selection, ev, trail>>

lvars == <<arrays, listeners, stateListeners, forEach, disposers>>

vars == <<svars, lvars>>

(***************************************************************************)
(* Sessions.  Each session has its identity (a uuid, index.js:52) and its  *)
(* replicated document has a numeric client id used to order concurrent    *)
(* insertions.                                                             *)
(***************************************************************************)
\* the sessions of the run: those that have a connection state
Clients == DOMAIN state

\* two sessions, and three
Pair == {"A", "B"}
Trio == {"A", "B", "C"}

clientID(s) == IF s = "A" THEN 1 ELSE IF s = "B" THEN 2 ELSE 3

Undef == "undefined"

(***************************************************************************)
(* Bounds of the model.                                                    *)
(***************************************************************************)
\* encodes applied to one store (SpecCodec)
MaxEncodes == 3
\* startSharing and applyDataChanges calls, over all sessions
MaxEdits == 2
\* connect calls, over all sessions
MaxConnects == 1
\* disconnect calls, over all sessions
MaxDisconnects == 1
\* messages in flight above which no session starts an operation
MaxInFlight == 2
\* length of the id sequences given to the diff (SpecDiff)
MaxLen == 3
\* rejected calls, ignored edits and messages of another protocol, over all
\* sessions (SpecCalls)
MaxErrors == 1
\* startSharing and applyDataChanges calls, over all sessions (SpecUndo)
MaxTyped == 3
\* undo and redo calls, over all sessions (SpecUndo)
MaxUndos == 3

MaxListeners == 3

MaxDisposals == 3

MaxDispatches == 2

(***************************************************************************)
(* The replicated document.  An item is one element of a shared type: an   *)
(* entry of a map (key = the entry's key) or an element of an array        *)
(* (key = ArrKey).  Its id is <<client id, clock>>; origin and right are   *)
(* the ids of its neighbours when it was created.  A document keeps, for   *)
(* every (parent, key), the ordered list of the items integrated there,    *)
(* the set ds of deleted item ids, and the items received whose            *)
(* dependencies are still missing.                                         *)
(***************************************************************************)
Nil == <<0, 0>>
RootPost == <<0, 1>>
ArrKey == "[]"
NoVal == [s |-> "", a |-> 0]

EmptyDoc == [lists |-> [pk \in {} |-> <<>>], ds |-> {}, pend |-> {}]

Range(f) == {f[x] : x \in DOMAIN f}

\* statements run in sequence: v is computed, then F continues with its value
Bind(v, F(_)) == CHOOSE r \in {F(x) : x \in {v}} : TRUE

ListOf(d, p, k) == IF <<p, k>> \in DOMAIN d.lists THEN d.lists[<<p, k>>] ELSE <<>>

SetList(d, p, k, lst) ==
    [d EXCEPT !.lists = (<<p, k>> :> lst) @@ d.lists]

AllItems(d) == UNION {Range(d.lists[pk]) : pk \in DOMAIN d.lists}

AllIds(d) == {i.id : i \in AllItems(d)}

\* yjs.encodeStateVector: per client, the next clock expected
StateVector(d) == [n \in 1..3 |-> Cardinality({i \in AllItems(d) : i.id[1] = n})]

InsertAt(lst, pos, it) ==
    SubSeq(lst, 1, pos) \o <<it>> \o SubSeq(lst, pos + 1, Len(lst))

IndexOfId(lst, id) == IF id = Nil THEN 0 ELSE CHOOSE j \in 1..Len(lst) : lst[j].id = id

\* Y.Map get: the last item of the key's chain, unless deleted
MapItem(d, p, k) ==
    LET lst == ListOf(d, p, k)
    IN  IF lst = <<>> \/ lst[Len(lst)].id \in d.ds
        THEN [id |-> Nil, parent |-> p, key |-> k, origin |-> Nil, right |-> Nil,
              kind |-> "none", val |-> NoVal]
        ELSE lst[Len(lst)]

MapHas(d, p, k) == MapItem(d, p, k).id # Nil

\* Y.Map set: a new item after the chain's last item, which it deletes
MapSet(d, c, p, k, kind, val) ==
    LET lst  == ListOf(d, p, k)
        left == IF lst = <<>> THEN Nil ELSE lst[Len(lst)].id
        it   == [id |-> <<c, StateVector(d)[c]>>, parent |-> p, key |-> k,
                 origin |-> left, right |-> Nil, kind |-> kind, val |-> val]
        d1   == SetList(d, p, k, Append(lst, it))
    IN  [d1 EXCEPT !.ds = @ \cup (IF left = Nil THEN {} ELSE {left})]

\* Y.Map delete
MapDelete(d, p, k) ==
    IF MapHas(d, p, k) THEN [d EXCEPT !.ds = @ \cup {MapItem(d, p, k).id}] ELSE d

\* Y.Array: the elements not deleted
ArrVisible(d, p) == SelectSeq(ListOf(d, p, ArrKey), LAMBDA i : i.id \notin d.ds)

ArrToArray(d, p) == LET v == ArrVisible(d, p) IN [j \in 1..Len(v) |-> v[j].val.s]

\* a faulty delete: the index is ignored, the first elements are deleted
ArrDeleteFromStart(d, p, index, length) ==
    LET v == ArrVisible(d, p)
    IN  [d EXCEPT !.ds = @ \cup {v[j].id : j \in {j \in 1..Len(v) : j <= length}}]

\* Y.Array delete(index, length)
ArrDelete(d, p, index, length) ==
    LET v == ArrVisible(d, p)
    IN  [d EXCEPT !.ds = @ \cup {v[j].id : j \in {j \in 1..Len(v) : index < j /\ j <= index + length}}]

\* Y.Array insert(index, content): one item per element, chained after the
\* index-th visible element
RECURSIVE ArrInsertFrom(_, _, _, _, _, _, _)
ArrInsertFrom(d, c, p, pos, left, right, content) ==
    IF content = <<>> THEN d
    ELSE Bind([id |-> <<c, StateVector(d)[c]>>, parent |-> p, key |-> ArrKey,
               origin |-> left, right |-> right, kind |-> "any",
               val |-> [s |-> Head(content), a |-> 0]], LAMBDA it :
         Bind(SetList(d, p, ArrKey, InsertAt(ListOf(d, p, ArrKey), pos, it)), LAMBDA d1 :
         ArrInsertFrom(d1, c, p, pos + 1, it.id, right, Tail(content))))

ArrInsert(d, c, p, index, content) ==
    Bind(ListOf(d, p, ArrKey), LAMBDA lst :
    Bind(IF index = 0 THEN Nil ELSE ArrVisible(d, p)[index].id, LAMBDA left :
    Bind(IndexOfId(lst, left), LAMBDA pos :
    ArrInsertFrom(d, c, p, pos, left,
                  IF pos < Len(lst) THEN lst[pos + 1].id ELSE Nil, content))))

(***************************************************************************)
(* Merging remote items.  An item is placed after its origin; among the    *)
(* items inserted concurrently at the same place the ones of smaller       *)
(* client id come first (the YATA rule of Item.integrate).                 *)
(***************************************************************************)
RECURSIVE ScanConflicts(_, _, _, _, _, _)
ScanConflicts(lst, it, o, left, conflicting, before) ==
    IF o > Len(lst) \/ (it.right # Nil /\ lst[o].id = it.right) THEN left
    ELSE LET before2 == before \cup {lst[o].id}
             conflicting2 == conflicting \cup {lst[o].id}
         IN  IF lst[o].origin = it.origin
             THEN IF lst[o].id[1] < it.id[1]
                  THEN ScanConflicts(lst, it, o + 1, o, {}, before2)
                  ELSE IF lst[o].right = it.right THEN left
                  ELSE ScanConflicts(lst, it, o + 1, left, conflicting2, before2)
             ELSE IF lst[o].origin # Nil /\ lst[o].origin \in before2
             THEN IF lst[o].origin \notin conflicting2
                  THEN ScanConflicts(lst, it, o + 1, o, {}, before2)
                  ELSE ScanConflicts(lst, it, o + 1, left, conflicting2, before2)
             ELSE left

Integrate(d, it) ==
    LET lst  == ListOf(d, it.parent, it.key)
        li   == IndexOfId(lst, it.origin)
        left == ScanConflicts(lst, it, li + 1, li, {}, {})
    IN  SetList(d, it.parent, it.key, InsertAt(lst, left, it))

\* an item can be integrated once the items it refers to are
Integrable(d, it) ==
    /\ it.id[2] = StateVector(d)[it.id[1]]
    /\ it.origin \in AllIds(d) \cup {Nil}
    /\ it.right \in AllIds(d) \cup {Nil}
    /\ it.parent \in AllIds(d) \cup {RootPost}

RECURSIVE IntegratePending(_)
IntegratePending(d) ==
    IF \E it \in d.pend : Integrable(d, it)
    THEN Bind(CHOOSE i \in d.pend : Integrable(d, i), LAMBDA it :
         Bind([Integrate(d, it) EXCEPT !.pend = @ \ {it}], LAMBDA d1 :
         IntegratePending(d1)))
    ELSE d

\* an update: the items and the deletions of a transaction or of a state diff
NoUpdate == [items |-> {}, ds |-> {}]

\* yjs.applyUpdate
applyUpdate(d, update) ==
    IntegratePending([d EXCEPT !.pend = @ \cup (update.items \ AllItems(d)),
                               !.ds = @ \cup update.ds])

\* a faulty state diff: the item at the clock the peer expects next is left out
encodeStateAsUpdateAbove(d, sv) ==
    [items |-> {i \in AllItems(d) : i.id[2] > sv[i.id[1]]}, ds |-> d.ds]

\* yjs.encodeStateAsUpdate(doc, stateVector)
encodeStateAsUpdate(d, sv) ==
    [items |-> {i \in AllItems(d) : i.id[2] >= sv[i.id[1]]}, ds |-> d.ds]

\* the update a transaction emits: what it added to the document
TransactionUpdate(d, e) == [items |-> AllItems(e) \ AllItems(d), ds |-> e.ds \ d.ds]

(***************************************************************************)
(* Diff Engine (algorithms/diff): largest common prefix, then the largest  *)
(* common suffix not overlapping it.                                       *)
(***************************************************************************)
Min(a, b) == IF a < b THEN a ELSE b

CommonPrefix(a, b) ==
    CHOOSE k \in 0..Min(Len(a), Len(b)) :
        /\ \A j \in 1..k : a[j] = b[j]
        /\ (k < Min(Len(a), Len(b)) => a[k + 1] # b[k + 1])

CommonSuffix(a, b, left) ==
    CHOOSE r \in 0..(Min(Len(a), Len(b)) - left) :
        /\ \A j \in 0..(r - 1) : a[Len(a) - j] = b[Len(b) - j]
        /\ (r < Min(Len(a), Len(b)) - left => a[Len(a) - r] # b[Len(b) - r])

simpleDiffArray(a, b) ==
    LET left  == CommonPrefix(a, b)
        right == CommonSuffix(a, b, left)
    IN  [index |-> left, remove |-> Len(a) - left - right,
         insert |-> SubSeq(b, left + 1, Len(b) - right)]

(***************************************************************************)
(* Tree Codec (algorithms/yjs.js).                                         *)
(***************************************************************************)
\* Array.prototype.slice(start, end)
slice(s, start, end) == SubSeq(s, start + 1, Min(end, Len(s)))

includes(s, x) == \E j \in 1..Len(s) : s[j] = x

\* the forEach of updateBlocksDoc that purges the content of removed ids
RECURSIVE purgeRemoved(_, _, _, _)
purgeRemoved(d, byClientId, removed, insert) ==
    IF removed = <<>> THEN d
    ELSE Bind(IF ~includes(insert, Head(removed))
              THEN MapDelete(d, byClientId, Head(removed)) ELSE d, LAMBDA d1 :
         purgeRemoved(d1, byClientId, Tail(removed), insert))

\* if ( ! map.has( key ) ) map.set( key, new yjs.Map() / new yjs.Array() )
getOrCreate(d, c, p, k, kind) ==
    IF ~MapHas(d, p, k) THEN MapSet(d, c, p, k, kind, NoVal) ELSE d

RECURSIVE updateBlocksDoc(_, _, _, _, _)
RECURSIVE updateBlocksLoop(_, _, _, _, _, _)

updateBlocksDoc(d, c, yDocBlocks, blocks, clientId) ==
    Bind(getOrCreate(d, c, yDocBlocks, "order", "map"), LAMBDA d1 :
    Bind(MapItem(d1, yDocBlocks, "order").id, LAMBDA orderMap :
    Bind(getOrCreate(d1, c, orderMap, clientId, "array"), LAMBDA d2 :
    Bind(MapItem(d2, orderMap, clientId).id, LAMBDA order :
    Bind(getOrCreate(d2, c, yDocBlocks, "byClientId", "map"), LAMBDA d3 :
    Bind(MapItem(d3, yDocBlocks, "byClientId").id, LAMBDA byClientId :
    Bind(ArrToArray(d3, order), LAMBDA currentOrder :
    Bind(simpleDiffArray(currentOrder, [j \in 1..Len(blocks) |-> blocks[j].clientId]),
         LAMBDA orderDiff :
    Bind(purgeRemoved(d3, byClientId,
                      slice(currentOrder, orderDiff.index, orderDiff.remove),
                      orderDiff.insert), LAMBDA d4 :
    Bind(ArrDelete(d4, order, orderDiff.index, orderDiff.remove), LAMBDA d5 :
    Bind(ArrInsert(d5, c, order, orderDiff.index, orderDiff.insert), LAMBDA d6 :
    updateBlocksLoop(d6, c, yDocBlocks, byClientId, blocks, 1))))))))))))

\* a faulty loop: the content is written but the inner blocks are not visited
RECURSIVE updateBlocksLoopFlat(_, _, _, _, _, _)
updateBlocksLoopFlat(d, c, yDocBlocks, byClientId, blocks, j) ==
    IF j > Len(blocks) THEN d
    ELSE Bind([s |-> blocks[j].clientId, a |-> blocks[j].attrs], LAMBDA block :
         Bind(IF \/ ~MapHas(d, byClientId, block.s)
                 \/ MapItem(d, byClientId, block.s).val # block
              THEN MapSet(d, c, byClientId, block.s, "any", block) ELSE d, LAMBDA d1 :
         updateBlocksLoopFlat(d1, c, yDocBlocks, byClientId, blocks, j + 1)))

updateBlocksLoop(d, c, yDocBlocks, byClientId, blocks, j) ==
    IF j > Len(blocks) THEN d
    ELSE Bind([s |-> blocks[j].clientId, a |-> blocks[j].attrs], LAMBDA block :
         Bind(IF \/ ~MapHas(d, byClientId, block.s)
                 \/ MapItem(d, byClientId, block.s).val # block
              THEN MapSet(d, c, byClientId, block.s, "any", block) ELSE d, LAMBDA d1 :
         Bind(updateBlocksDoc(d1, c, yDocBlocks, blocks[j].innerBlocks, block.s), LAMBDA d2 :
         updateBlocksLoop(d2, c, yDocBlocks, byClientId, blocks, j + 1))))

\* postDoc.get('title'): the stored value, undefined when absent
getTitle(d) == IF MapHas(d, RootPost, "title") THEN MapItem(d, RootPost, "title").val.s ELSE Undef

\* newPost = [title, blocks]; the callers pass no comments, so
\* updateCommentsDoc iterates over its default empty list
updatePostDoc(d, c, newPost) ==
    Bind(IF getTitle(d) # newPost.title
         THEN MapSet(d, c, RootPost, "title", "any", [s |-> newPost.title, a |-> 0])
         ELSE d, LAMBDA d1 :
    Bind(getOrCreate(d1, c, RootPost, "blocks", "map"), LAMBDA d2 :
    Bind(updateBlocksDoc(d2, c, MapItem(d2, RootPost, "blocks").id, newPost.blocks, ""),
         LAMBDA d3 :
    getOrCreate(d3, c, RootPost, "comments", "map"))))

TypeErrorTree == <<[clientId |-> "TypeError", attrs |-> 0, innerBlocks |-> <<>>]>>

RECURSIVE blocksDocToArray(_, _, _)
blocksDocToArray(d, yDocBlocks, clientId) ==
    IF yDocBlocks = Nil THEN <<>>
    ELSE IF ~MapHas(d, yDocBlocks, "order") THEN TypeErrorTree
    ELSE LET orderMap == MapItem(d, yDocBlocks, "order").id IN
         IF ~MapHas(d, orderMap, clientId) THEN <<>>
         ELSE IF ~MapHas(d, yDocBlocks, "byClientId") THEN TypeErrorTree
         ELSE LET order == ArrToArray(d, MapItem(d, orderMap, clientId).id)
                  byClientId == MapItem(d, yDocBlocks, "byClientId").id
              IN  [j \in 1..Len(order) |->
                     LET e == MapItem(d, byClientId, order[j])
                     IN  [clientId |-> IF e.id = Nil THEN Undef ELSE e.val.s,
                          attrs |-> e.val.a,
                          innerBlocks |-> blocksDocToArray(d, yDocBlocks, order[j])]]

postDocToObject(d) ==
    [title |-> IF getTitle(d) = Undef THEN "" ELSE getTitle(d),
     blocks |-> blocksDocToArray(d, MapItem(d, RootPost, "blocks").id, "")]

(***************************************************************************)
(* Input trees: well-formed forests (ids unique) over Ids.                 *)
(***************************************************************************)
Ids == {"x", "y", "z"}

Leaf(i, a) == [clientId |-> i, attrs |-> a, innerBlocks |-> <<>>]
Node(i, a, inner) == [clientId |-> i, attrs |-> a, innerBlocks |-> inner]

RECURSIVE IdSeq(_)
IdSeq(blocks) ==
    IF blocks = <<>> THEN <<>>
    ELSE <<Head(blocks).clientId>> \o IdSeq(Head(blocks).innerBlocks) \o IdSeq(Tail(blocks))

IdsOf(blocks) == Range(IdSeq(blocks))

WellFormed(blocks) == Cardinality(IdsOf(blocks)) = Len(IdSeq(blocks))

Attrs(i) == IF i \in {"x", "y"} THEN {0, 1} ELSE {0}

Leaves == {Leaf(i, a) : i \in Ids, a \in {0, 1}}

LeafSeqs == {<<>>} \cup {<<l>> : l \in Leaves} \cup {<<l, m>> : l \in Leaves, m \in Leaves}

Blocks2 == {Node(l.clientId, l.attrs, inner) : l \in Leaves, inner \in LeafSeqs}

Blocks3 == {Node(l.clientId, l.attrs, <<b>>) : l \in Leaves, b \in Blocks2}

AttrsOk(blocks) == \A j \in 1..Len(blocks) :
    /\ blocks[j].attrs \in Attrs(blocks[j].clientId)
    /\ \A k \in 1..Len(blocks[j].innerBlocks) :
        /\ blocks[j].innerBlocks[k].attrs \in Attrs(blocks[j].innerBlocks[k].clientId)
        /\ \A m \in 1..Len(blocks[j].innerBlocks[k].innerBlocks) :
             blocks[j].innerBlocks[k].innerBlocks[m].attrs = 0

\* every well-formed forest of at most three blocks
AllTrees ==
    {t \in {<<>>} \cup {<<b>> : b \in Blocks2 \cup Blocks3}
              \cup {<<b, e>> : b \in Blocks2, e \in Blocks2}
              \cup {<<l, m, n>> : l \in Leaves, m \in Leaves, n \in Leaves} :
        WellFormed(t) /\ Len(IdSeq(t)) <= 3 /\ AttrsOk(t)}

\* the forests of at most two blocks over x and y
EditTrees == {t \in AllTrees : /\ Len(IdSeq(t)) <= 2
                               /\ IdsOf(t) \subseteq {"x", "y"}
                               /\ \A j \in 1..Len(t) : t[j].clientId = "y" => t[j].attrs = 0}

(***************************************************************************)
(* Y.UndoManager over the post map.  A stack item keeps what a captured    *)
(* transaction deleted and inserted, and the editor selection recorded     *)
(* when the item was added (meta 'caret-location').  Undoing an item       *)
(* deletes its insertions and re-creates ("redoes") its deletions as new   *)
(* items; redone remembers, per re-created item, the item that replaces    *)
(* it.                                                                     *)
(***************************************************************************)
\* an editor selection without a start position
NoSelection == "none"

Selections == {NoSelection, "S0", "S1", "S2"}

StackItem(deletions, insertions, caret) ==
    [deletions |-> deletions, insertions |-> insertions, caret |-> caret]

NoStackItem == StackItem({}, {}, NoSelection)

\* let undoManager (undefined until the session is first on)
NoUndoManager ==
    [made |-> FALSE, undoStack |-> <<>>, redoStack |-> <<>>, redone |-> {},
     capturing |-> FALSE]

Front(stack) == SubSeq(stack, 1, Len(stack) - 1)

ItemOf(d, id) == CHOOSE i \in AllItems(d) : i.id = id

\* item.redone
Redone(redone, id) ==
    IF \E p \in redone : p[1] = id THEN (CHOOSE p \in redone : p[1] = id)[2] ELSE Nil

RECURSIVE followRedone(_, _)
followRedone(redone, id) ==
    IF Redone(redone, id) = Nil THEN id ELSE followRedone(redone, Redone(redone, id))

\* item.delete(transaction): the item and, for a shared type, all it holds
RECURSIVE Subtree(_, _)
Subtree(d, ids) ==
    Bind(ids \cup {i.id : i \in {i \in AllItems(d) : i.parent \in ids}}, LAMBDA more :
    IF more = ids THEN ids ELSE Subtree(d, more))

deleteItems(d, ids) == [d EXCEPT !.ds = @ \cup Subtree(d, ids)]

\* redoItem: the item whose parent the re-created item gets
redoParent(acc, item) ==
    IF item.parent = RootPost \/ item.parent \notin acc.d.ds THEN item.parent
    ELSE IF Redone(acc.redone, item.parent) = Nil THEN Nil
    ELSE followRedone(acc.redone, item.parent)

\* redoItem: the neighbour, or what replaced it, that lies in the parent
RECURSIVE traceTo(_, _, _, _)
traceTo(d, redone, id, parent) ==
    IF ItemOf(d, id).parent = parent THEN id
    ELSE IF Redone(redone, id) = Nil THEN Nil
    ELSE traceTo(d, redone, Redone(redone, id), parent)

RECURSIVE leftTrace(_, _, _, _, _)
leftTrace(d, redone, lst, j, parent) ==
    IF j = 0 THEN Nil
    ELSE IF traceTo(d, redone, lst[j].id, parent) # Nil
    THEN traceTo(d, redone, lst[j].id, parent)
    ELSE leftTrace(d, redone, lst, j - 1, parent)

RECURSIVE rightTrace(_, _, _, _, _)
rightTrace(d, redone, lst, j, parent) ==
    IF j > Len(lst) THEN Nil
    ELSE IF traceTo(d, redone, lst[j].id, parent) # Nil
    THEN traceTo(d, redone, lst[j].id, parent)
    ELSE rightTrace(d, redone, lst, j + 1, parent)

\* redoItem, array element: a copy is integrated between the item's left
\* neighbour and the item
redoInArray(acc, c, item, parent) ==
    Bind(ListOf(acc.d, item.parent, ArrKey), LAMBDA lst :
    Bind(IndexOfId(lst, item.id), LAMBDA pos :
    Bind([id |-> <<c, StateVector(acc.d)[c]>>, parent |-> parent, key |-> ArrKey,
          origin |-> leftTrace(acc.d, acc.redone, lst, pos - 1, parent),
          right |-> rightTrace(acc.d, acc.redone, lst, pos, parent),
          kind |-> item.kind, val |-> item.val], LAMBDA it :
    [d |-> Integrate(acc.d, it), redone |-> acc.redone \cup {<<item.id, it.id>>},
     changed |-> TRUE])))

\* redoItem, map entry: a copy is set as the key's value, unless an item the
\* stack item did not insert was set after it (a change of another origin)
redoInMap(acc, c, item, parent, insertions) ==
    Bind(ListOf(acc.d, item.parent, item.key), LAMBDA lst :
    IF \E j \in (IndexOfId(lst, item.id) + 1)..Len(lst) : lst[j].id \notin insertions
    THEN acc
    ELSE [d |-> MapSet(acc.d, c, parent, item.key, item.kind, item.val),
          redone |-> acc.redone \cup {<<item.id, <<c, StateVector(acc.d)[c]>> >>},
          changed |-> TRUE])

redoItem(acc, c, id, insertions) ==
    IF Redone(acc.redone, id) # Nil THEN [acc EXCEPT !.changed = TRUE]
    ELSE Bind(ItemOf(acc.d, id), LAMBDA item :
         Bind(redoParent(acc, item), LAMBDA parent :
         IF parent = Nil THEN acc
         ELSE IF item.key = ArrKey THEN redoInArray(acc, c, item, parent)
         ELSE redoInMap(acc, c, item, parent, insertions)))

idLeq(a, b) == a[1] < b[1] \/ (a[1] = b[1] /\ a[2] <= b[2])

\* itemsToRedo.forEach(redoItem): in id order, a parent before what it holds
RECURSIVE redoItems(_, _, _, _)
redoItems(acc, c, todo, insertions) ==
    IF todo = {} THEN acc
    ELSE Bind({i \in todo : ItemOf(acc.d, i).parent \notin todo}, LAMBDA roots :
         Bind(CHOOSE i \in roots : \A o \in roots : idLeq(i, o), LAMBDA id :
         redoItems(redoItem(acc, c, id, insertions), c, todo \ {id}, insertions)))

itemsToDelete(d, redone, stackItem) ==
    {i \in {followRedone(redone, x) : x \in stackItem.insertions} :
        i \in AllIds(d) /\ i \notin d.ds}

\* popStackItem: stack items are popped until one of them changes the document
RECURSIVE popStackItem(_, _, _, _)
popStackItem(d, c, redone, stack) ==
    IF stack = <<>>
    THEN [d |-> d, redone |-> redone, stack |-> stack, result |-> NoStackItem]
    ELSE Bind(stack[Len(stack)], LAMBDA stackItem :
         Bind(itemsToDelete(d, redone, stackItem), LAMBDA del :
         Bind(redoItems([d |-> d, redone |-> redone, changed |-> FALSE], c,
                        stackItem.deletions \ stackItem.insertions,
                        stackItem.insertions), LAMBDA acc :
         IF acc.changed \/ del # {}
         THEN [d |-> deleteItems(acc.d, del), redone |-> acc.redone,
               stack |-> Front(stack), result |-> stackItem]
         ELSE popStackItem(acc.d, c, acc.redone, Front(stack)))))

\* a transaction changed the shared types
changedTypes(before, after) ==
    AllItems(before) # AllItems(after) \/ before.ds # after.ds

\* the manager's afterTransaction handler for a transaction of a tracked
\* origin: mode is "undo" while undoing, "redo" while redoing, "edit"
\* otherwise; quick tells that the change came within the capture timeout of
\* the previous one; caret is what getSelection() returns when a stack item
\* is added
afterTransaction(um, before, after, mode, quick, caret) ==
    IF ~um.made \/ ~changedTypes(before, after) THEN um
    ELSE Bind(StackItem(after.ds \ before.ds, AllIds(after) \ AllIds(before), caret),
              LAMBDA item :
         IF mode = "undo"
         THEN [um EXCEPT !.redoStack = Append(@, item), !.capturing = FALSE]
         ELSE IF mode = "redo"
         THEN [um EXCEPT !.undoStack = Append(@, item)]
         ELSE IF quick /\ um.capturing /\ um.undoStack # <<>>
         THEN [um EXCEPT !.undoStack[Len(um.undoStack)] =
                             StackItem(@.deletions \cup item.deletions,
                                       @.insertions \cup item.insertions, @.caret),
                         !.redoStack = <<>>]
         ELSE [um EXCEPT !.undoStack = Append(@, item), !.redoStack = <<>>,
                         !.capturing = TRUE])

\* the origin of a transaction run by undoManager.undo() / redo()
UndoOrigin == "UndoManager"

\* a faulty undo manager: the transactions of every origin are tracked
trackedOriginsAll(identity) == {identity, UndoOrigin, Undef}

\* trackedOrigins: new Set( [ identity ] ), to which the undo manager adds
\* itself
trackedOrigins(identity) == {identity, UndoOrigin}

\* the undo manager of session s after a transaction of the given origin: the
\* transaction is captured if its origin is tracked
captureTransaction(um, s, origin, before, after, mode, quick, caret) ==
    IF origin \in trackedOrigins(s)
    THEN afterTransaction(um, before, after, mode, quick, caret)
    ELSE um

(***************************************************************************)
(* State.                                                                  *)
(***************************************************************************)
NoSV == [n \in 1..3 |-> 0]

\* a 'doc' message of the protocol (fields a message lacks are undefined)
Message(messageType, origin, destination, isReply, stateVector, update) ==
    [protocol |-> "yjs1", messageType |-> messageType, origin |-> origin,
     destination |-> destination, isReply |-> isReply, stateVector |-> stateVector,
     update |-> update]

NoMessage == Message("none", Undef, Undef, FALSE, NoSV, NoUpdate)

NoData == [title |-> Undef, blocks |-> <<>>]

NoLast == [s |-> "", data |-> NoData, prev |-> NoData, before |-> EmptyDoc,
           writes |-> 0, n |-> 0]

NoCount == [edits |-> 0, connects |-> 0, disconnects |-> 0, sync1 |-> 0, sync2 |-> 0,
            undos |-> 0, errors |-> 0, ignored |-> 0, strays |-> 0]

\* the outcome of an operation op of session s: the origin of its document
\* transaction ("" if it ran none), the error thrown to its caller ("" if
\* none), whether a document change event fired, whether the decoded tree was
\* handed to the change listeners, and the selection handed to setSelection
Event(s, op, origin, threw, changed, published, restored) ==
    [s |-> s, op |-> op, origin |-> origin, threw |-> threw, changed |-> changed,
     published |-> published, restored |-> restored]

NoEvent == Event("", "", "", "", FALSE, FALSE, NoSelection)

(***************************************************************************)
(* The listener lists of one document.  Each list variable refers to an    *)
(* array: push adds to that array in place, a disposer assigns a filtered  *)
(* copy to the variable, and forEach walks the array it was called on, up  *)
(* to the length the array had when the walk started.                      *)
(***************************************************************************)
Callbacks == {"f", "g"}

Lists == {"listeners", "stateListeners"}

NoForEach == [list |-> "none", array |-> 0, k |-> 0, len |-> 0, start |-> <<>>,
              called |-> <<>>, n |-> 0]

InitListeners ==
    /\ arrays = << <<>>, <<"setupUndoManagerOnReady">> >>
    /\ listeners = 1
    /\ stateListeners = 2
    /\ forEach = NoForEach
    /\ disposers = <<>>

\* the array a list variable refers to
arrayOf(list) == IF list = "listeners" THEN listeners ELSE stateListeners

\* array.filter((l) => l !== listener)
filter(array, listener) == SelectSeq(array, LAMBDA l : l # listener)

\* list.push(listener), and the disposer it returns
push(list, listener) ==
    /\ arrays' = [arrays EXCEPT ![arrayOf(list)] = Append(@, listener)]
    /\ disposers' = Append(disposers, [list |-> list, listener |-> listener, calls |-> 0])
    /\ UNCHANGED <<listeners, stateListeners>>

onRemoteDataChange(listener) == push("listeners", listener)

onStateChange(listener) == push("stateListeners", listener)

\* the disposer the d-th registration returned: list = list.filter(...)
dispose(d) ==
    /\ arrays' = Append(arrays, filter(arrays[arrayOf(disposers[d].list)],
                                       disposers[d].listener))
    /\ listeners' = IF disposers[d].list = "listeners" THEN Len(arrays) + 1 ELSE listeners
    /\ stateListeners' = IF disposers[d].list = "stateListeners" THEN Len(arrays) + 1
                         ELSE stateListeners
    /\ disposers' = [disposers EXCEPT ![d].calls = @ + 1]

\* list.forEach(...) starts: the array and its length are read once
forEachStart(list) ==
    forEach' = [list |-> list, array |-> arrayOf(list), k |-> 1,
                len |-> Len(arrays[arrayOf(list)]), start |-> arrays[arrayOf(list)],
                called |-> <<>>, n |-> forEach.n + 1]

\* list.forEach(...) calls the next element of the array it walks
forEachCall ==
    forEach' = [forEach EXCEPT !.k = @ + 1,
                               !.called = Append(@, arrays[forEach.array][forEach.k])]

Init ==
    /\ state = [s \in Pair |-> "off"]
    /\ doc = [s \in Clients |-> EmptyDoc]
    /\ net = EmptyBag
    /\ last = NoLast
    /\ connAt = [s \in Clients |-> -1]
    /\ count = NoCount
    /\ undoManager = [s \in Clients |-> NoUndoManager]
    /\ selection = [s \in Clients |-> NoSelection]
    /\ ev = NoEvent
    /\ trail = [s \in Clients |-> <<>>]
    /\ InitListeners

\* the number of writes between two document states
Writes(d, e) == Cardinality(AllIds(e) \ AllIds(d)) + Cardinality(e.ds \ d.ds)

\* encodeArray / decodeArray: a byte array as comma-separated text and back;
\* the payloads are never empty, so the text splits back into the same bytes
encodeArray(bytes) == [text |-> bytes]
decodeArray(string) == string.text

\* sendMessage: the transport hands the message to every other session
sendMessage(bag, s, message) ==
    bag (+) SetToBag({[to |-> p, message |-> message] : p \in Clients \ {s}})

\* origin === identity || origin instanceof yjs.UndoManager
isLocalOrigin(s, origin) == origin = s \/ origin = UndoOrigin

\* a faulty update handler: the origin test is inverted
onUpdateInverted(bag, s, st, origin, before, after) ==
    IF changedTypes(before, after) /\ ~isLocalOrigin(s, origin) /\ st = "on"
    THEN sendMessage(bag, s, Message("syncUpdate", Undef, Undef, FALSE, NoSV,
                                     encodeArray(TransactionUpdate(before, after))))
    ELSE bag

\* a faulty update handler: the connection state is not consulted
onUpdateAnyState(bag, s, st, origin, before, after) ==
    IF changedTypes(before, after) /\ isLocalOrigin(s, origin)
    THEN sendMessage(bag, s, Message("syncUpdate", Undef, Undef, FALSE, NoSV,
                                     encodeArray(TransactionUpdate(before, after))))
    ELSE bag

\* doc.on('update'): a change of local origin is broadcast in state on
onUpdate(bag, s, st, origin, before, after) ==
    IF changedTypes(before, after) /\ isLocalOrigin(s, origin) /\ st = "on"
    THEN sendMessage(bag, s, Message("syncUpdate", Undef, Undef, FALSE, NoSV,
                                     encodeArray(TransactionUpdate(before, after))))
    ELSE bag

\* a faulty update handler: only remote merges reach the listeners
publishesRemoteOnly(s, origin, before, after) ==
    changedTypes(before, after) /\ ~isLocalOrigin(s, origin)

\* doc.on('update'): a change whose origin is not the identity is decoded and
\* handed to the change listeners
publishes(s, origin, before, after) ==
    changedTypes(before, after) /\ origin # s

\* sync(destination, isReply)
sync(bag, s, destination, isReply) ==
    sendMessage(bag, s, Message("sync1", s, destination, isReply,
                                encodeArray(StateVector(doc[s])), NoUpdate))

\* setupUndoManagerOnReady(newState), the first state listener
setupUndoManagerOnReady(um, newState) ==
    IF newState = "on" /\ ~um.made THEN [NoUndoManager EXCEPT !.made = TRUE] ELSE um

\* the events of the undo manager after a transaction: 'stack-item-added' if
\* the stack grew (its handler recorded caret), 'stack-item-updated' (which
\* has no handler) if the transaction was merged into the item on top
stackItemAdded(before, after, type) ==
    IF Len(after) > Len(before)
    THEN <<[e |-> "added", type |-> type, sel |-> after[Len(after)].caret]>>
    ELSE IF after # before
    THEN <<[e |-> "updated", type |-> type, sel |-> after[Len(after)].caret]>>
    ELSE <<>>

\* doc.transact(() => applyDataChanges(doc, data), identity), in state st, by
\* operation op, with um the session's undo manager at that time and caret
\* the editor's selection at that time
transactData(s, op, st, um, data, quick, caret) ==
    \E e \in {updatePostDoc(doc[s], clientID(s), data)} :
    \E um2 \in {captureTransaction(um, s, s, doc[s], e, "edit", quick, caret)} :
        /\ doc' = [doc EXCEPT ![s] = e]
        /\ net' = onUpdate(net, s, st, s, doc[s], e)
        /\ last' = [s |-> s, data |-> data, prev |-> last.data, before |-> doc[s],
                    writes |-> Writes(doc[s], e), n |-> last.n + 1]
        /\ undoManager' = [undoManager EXCEPT ![s] = um2]
        /\ trail' = [trail EXCEPT
                        ![s] = @ \o stackItemAdded(um.undoStack, um2.undoStack, "undo")]
        /\ ev' = Event(s, op, s, "", changedTypes(doc[s], e),
                       publishes(s, s, doc[s], e), NoSelection)
        /\ count' = [count EXCEPT !.edits = @ + 1]

\* throw error: the operation ends there
throw(s, op, error) ==
    /\ ev' = Event(s, op, "", error, FALSE, FALSE, NoSelection)
    /\ count' = [count EXCEPT !.errors = @ + 1]
    /\ UNCHANGED <<state, doc, net, last, connAt, undoManager, trail>>

(***************************************************************************)
(* The operations of a session (createDocument).                           *)
(***************************************************************************)
\* a faulty applyDataChanges: the state is not tested
applyDataChangesUnguarded(s, op, data, quick, caret) ==
    /\ transactData(s, op, state[s], undoManager[s], data, quick, caret)
    /\ UNCHANGED <<state, connAt>>

\* applyDataChanges(data), entered through op (the operation itself, or the
\* editor's applyChangesToYjs)
applyDataChanges(s, op, data, quick, caret) ==
    IF state[s] # "on" THEN throw(s, op, "wrong state")
    ELSE /\ transactData(s, op, "on", undoManager[s], data, quick, caret)
         /\ UNCHANGED <<state, connAt>>

\* a faulty connect: the state is not tested
connectUnguarded(s) ==
    /\ state' = [state EXCEPT ![s] = "connecting"]
    /\ net' = sync(net, s, Undef, FALSE)
    /\ connAt' = [connAt EXCEPT ![s] = count.edits]
    /\ count' = [count EXCEPT !.connects = @ + 1, !.sync1 = @ + 1]
    /\ ev' = Event(s, "connect", "", "", FALSE, FALSE, NoSelection)
    /\ UNCHANGED <<doc, last, undoManager, trail>>

connect(s) ==
    IF state[s] = "on" THEN throw(s, "connect", "wrong state")
    ELSE /\ state' = [state EXCEPT ![s] = "connecting"]
         /\ net' = sync(net, s, Undef, FALSE)
         /\ connAt' = [connAt EXCEPT ![s] = count.edits]
         /\ count' = [count EXCEPT !.connects = @ + 1, !.sync1 = @ + 1]
         /\ ev' = Event(s, "connect", "", "", FALSE, FALSE, NoSelection)
         /\ UNCHANGED <<doc, last, undoManager, trail>>

disconnect(s) ==
    /\ state' = [state EXCEPT ![s] = "off"]
    /\ count' = [count EXCEPT !.disconnects = @ + 1]
    /\ ev' = Event(s, "disconnect", "", "", FALSE, FALSE, NoSelection)
    /\ UNCHANGED <<doc, net, last, connAt, undoManager, trail>>

startSharing(s, data, caret) ==
    IF state[s] = "on" THEN throw(s, "startSharing", "wrong state")
    ELSE /\ state' = [state EXCEPT ![s] = "on"]
         /\ transactData(s, "startSharing", "on",
                         setupUndoManagerOnReady(undoManager[s], "on"), data, FALSE,
                         caret)
         /\ UNCHANGED connAt

\* a faulty sync1 handler: the sync-response is sent, the reply request is not
receiveSync1NoReply(s, m, rest) ==
    IF m.destination # Undef /\ m.destination # s
    THEN net' = rest /\ UNCHANGED count
    ELSE /\ net' = sendMessage(rest, s,
                    Message("sync2", Undef, m.origin, FALSE, NoSV,
                            encodeArray(encodeStateAsUpdate(doc[s],
                                                            decodeArray(m.stateVector)))))
         /\ count' = [count EXCEPT !.sync2 = @ + 1]

\* a faulty sync1 handler: a reply request is answered by a request as well
receiveSync1AlwaysReply(s, m, rest) ==
    IF m.destination # Undef /\ m.destination # s
    THEN net' = rest /\ UNCHANGED count
    ELSE /\ net' = sync(sendMessage(rest, s,
                    Message("sync2", Undef, m.origin, FALSE, NoSV,
                            encodeArray(encodeStateAsUpdate(doc[s],
                                                            decodeArray(m.stateVector))))),
                        s, m.origin, TRUE)
         /\ count' = [count EXCEPT !.sync2 = @ + 1, !.sync1 = @ + 1]

\* receiveMessage, by message type
receiveSync1(s, m, rest) ==
    IF m.destination # Undef /\ m.destination # s
    THEN net' = rest /\ UNCHANGED count
    ELSE LET reply == Message("sync2", Undef, m.origin, FALSE, NoSV,
                              encodeArray(encodeStateAsUpdate(doc[s],
                                                              decodeArray(m.stateVector))))
             sent  == sendMessage(rest, s, reply)
         IN  /\ net' = IF ~m.isReply THEN sync(sent, s, m.origin, TRUE) ELSE sent
             /\ count' = [count EXCEPT !.sync2 = @ + 1,
                                       !.sync1 = IF ~m.isReply THEN @ + 1 ELSE @]

\* a faulty sync2 handler: the destination is not tested
receiveSync2Unaddressed(s, m, rest) ==
    \E e \in {applyUpdate(doc[s], decodeArray(m.update))} :
        /\ doc' = [doc EXCEPT ![s] = e]
        /\ net' = onUpdate(rest, s, state[s], m.origin, doc[s], e)
        /\ state' = [state EXCEPT ![s] = "on"]
        /\ undoManager' = [undoManager EXCEPT
              ![s] = setupUndoManagerOnReady(
                         captureTransaction(@, s, m.origin, doc[s], e, "edit",
                                            FALSE, selection[s]), "on")]
        /\ ev' = Event(s, "sync2", m.origin, "", changedTypes(doc[s], e),
                       publishes(s, m.origin, doc[s], e), NoSelection)

receiveSync2(s, m, rest) ==
    IF m.destination # s
    THEN /\ net' = rest
         /\ ev' = Event(s, "sync2", "", "", FALSE, FALSE, NoSelection)
         /\ UNCHANGED <<doc, state, undoManager>>
    ELSE \E e \in {applyUpdate(doc[s], decodeArray(m.update))} :
             /\ doc' = [doc EXCEPT ![s] = e]
             /\ net' = onUpdate(rest, s, state[s], m.origin, doc[s], e)
             /\ state' = [state EXCEPT ![s] = "on"]
             /\ undoManager' = [undoManager EXCEPT
                   ![s] = setupUndoManagerOnReady(
                              captureTransaction(@, s, m.origin, doc[s], e, "edit",
                                                 FALSE, selection[s]), "on")]
             /\ ev' = Event(s, "sync2", m.origin, "", changedTypes(doc[s], e),
                            publishes(s, m.origin, doc[s], e), NoSelection)

receiveSyncUpdate(s, m, rest) ==
    \E e \in {applyUpdate(doc[s], decodeArray(m.update))} :
        /\ doc' = [doc EXCEPT ![s] = e]
        /\ net' = onUpdate(rest, s, state[s], m.origin, doc[s], e)
        /\ undoManager' = [undoManager EXCEPT
              ![s] = captureTransaction(@, s, m.origin, doc[s], e, "edit", FALSE,
                                        selection[s])]
        /\ ev' = Event(s, "syncUpdate", m.origin, "", changedTypes(doc[s], e),
                       publishes(s, m.origin, doc[s], e), NoSelection)

receiveMessage(s, m) ==
    /\ BagIn([to |-> s, message |-> m], net)
    /\ LET rest == net (-) SetToBag({[to |-> s, message |-> m]})
       IN  IF m.protocol # "yjs1"
           THEN /\ net' = rest
                /\ ev' = Event(s, "receiveMessage", "", "wrong protocol", FALSE, FALSE,
                               NoSelection)
                /\ count' = [count EXCEPT !.errors = @ + 1]
                /\ UNCHANGED <<doc, state, undoManager>>
           ELSE CASE m.messageType = "sync1" ->
                    /\ receiveSync1(s, m, rest)
                    /\ ev' = Event(s, "sync1", "", "", FALSE, FALSE, NoSelection)
                    /\ UNCHANGED <<doc, state, undoManager>>
             [] m.messageType = "sync2" ->
                    receiveSync2(s, m, rest) /\ UNCHANGED count
             [] m.messageType = "syncUpdate" ->
                    receiveSyncUpdate(s, m, rest) /\ UNCHANGED <<state, count>>
    /\ UNCHANGED <<last, connAt, trail>>

\* a faulty 'stack-item-popped' handler: always the popped item
selectionOfPopped(type, undoStack, stackItem) == stackItem

\* a faulty 'stack-item-popped' handler: always the item on top of the undo
\* stack
selectionOfTop(type, undoStack, stackItem) ==
    IF undoStack = <<>> THEN NoStackItem ELSE undoStack[Len(undoStack)]

\* the 'stack-item-popped' handler: the selection to restore is read from the
\* item now on top of the undo stack after an undo, from the popped item after
\* a redo
selectionReferenceItem(type, undoStack, stackItem) ==
    IF type = "undo"
    THEN (IF undoStack = <<>> THEN NoStackItem ELSE undoStack[Len(undoStack)])
    ELSE stackItem

\* undoManager.undo(): undoManager?.undo()
undo(s) ==
    IF ~undoManager[s].made
    THEN /\ ev' = Event(s, "undo", "", "", FALSE, FALSE, NoSelection)
         /\ count' = [count EXCEPT !.undos = @ + 1]
         /\ UNCHANGED <<state, doc, net, last, connAt, undoManager, selection, trail>>
    ELSE \E r \in {popStackItem(doc[s], clientID(s), undoManager[s].redone,
                                undoManager[s].undoStack)} :
         \E um \in {[undoManager[s] EXCEPT !.undoStack = r.stack,
                                           !.redone = r.redone]} :
         \E um2 \in {captureTransaction(um, s, UndoOrigin, doc[s], r.d, "undo", FALSE,
                                         selection[s])} :
         \E sel \in {IF r.result = NoStackItem THEN NoSelection
                     ELSE selectionReferenceItem("undo", um2.undoStack, r.result).caret} :
            /\ doc' = [doc EXCEPT ![s] = r.d]
            /\ net' = onUpdate(net, s, state[s], UndoOrigin, doc[s], r.d)
            /\ undoManager' = [undoManager EXCEPT ![s] = um2]
            /\ selection' = [selection EXCEPT ![s] = IF sel # NoSelection THEN sel ELSE @]
            /\ trail' = [trail EXCEPT
                            ![s] = @ \o stackItemAdded(um.redoStack, um2.redoStack, "redo")
                                     \o (IF r.result = NoStackItem THEN <<>>
                                         ELSE <<[e |-> "popped", type |-> "undo",
                                                 sel |-> sel]>>)]
            /\ ev' = Event(s, "undo", UndoOrigin, "", changedTypes(doc[s], r.d),
                           publishes(s, UndoOrigin, doc[s], r.d), sel)
            /\ count' = [count EXCEPT !.undos = @ + 1]
            /\ UNCHANGED <<state, last, connAt>>

\* undoManager.redo(): undoManager?.redo()
redo(s) ==
    IF ~undoManager[s].made
    THEN /\ ev' = Event(s, "redo", "", "", FALSE, FALSE, NoSelection)
         /\ count' = [count EXCEPT !.undos = @ + 1]
         /\ UNCHANGED <<state, doc, net, last, connAt, undoManager, selection, trail>>
    ELSE \E r \in {popStackItem(doc[s], clientID(s), undoManager[s].redone,
                                undoManager[s].redoStack)} :
         \E um \in {[undoManager[s] EXCEPT !.redoStack = r.stack,
                                           !.redone = r.redone]} :
         \E um2 \in {captureTransaction(um, s, UndoOrigin, doc[s], r.d, "redo", FALSE,
                                         selection[s])} :
         \E sel \in {IF r.result = NoStackItem THEN NoSelection
                     ELSE selectionReferenceItem("redo", um2.undoStack, r.result).caret} :
            /\ doc' = [doc EXCEPT ![s] = r.d]
            /\ net' = onUpdate(net, s, state[s], UndoOrigin, doc[s], r.d)
            /\ undoManager' = [undoManager EXCEPT ![s] = um2]
            /\ selection' = [selection EXCEPT ![s] = IF sel # NoSelection THEN sel ELSE @]
            /\ trail' = [trail EXCEPT
                            ![s] = @ \o stackItemAdded(um.undoStack, um2.undoStack, "undo")
                                     \o (IF r.result = NoStackItem THEN <<>>
                                         ELSE <<[e |-> "popped", type |-> "redo",
                                                 sel |-> sel]>>)]
            /\ ev' = Event(s, "redo", UndoOrigin, "", changedTypes(doc[s], r.d),
                           publishes(s, UndoOrigin, doc[s], r.d), sel)
            /\ count' = [count EXCEPT !.undos = @ + 1]
            /\ UNCHANGED <<state, last, connAt>>

\* undoManager.hasUndo() / hasRedo()
hasUndoAny(s) == (IF undoManager[s].made THEN Len(undoManager[s].undoStack) ELSE 0) > 0

hasUndo(s) == (IF undoManager[s].made THEN Len(undoManager[s].undoStack) ELSE 0) > 1

hasRedo(s) == undoManager[s].made /\ Len(undoManager[s].redoStack) # 0

\* a faulty applyChangesToYjs: the state is not tested
applyChangesToYjsUnguarded(s, blocks, quick, caret) ==
    applyDataChanges(s, "applyChangesToYjs", [title |-> Undef, blocks |-> blocks], quick,
                     caret)

\* applyChangesToYjs(blocks): the editor's edits reach the document in state
\* on only
applyChangesToYjs(s, blocks, quick, caret) ==
    IF state[s] # "on"
    THEN /\ ev' = Event(s, "applyChangesToYjs", "", "", FALSE, FALSE, NoSelection)
         /\ count' = [count EXCEPT !.ignored = @ + 1]
         /\ UNCHANGED <<state, doc, net, last, connAt, undoManager, trail>>
    ELSE applyDataChanges(s, "applyChangesToYjs", [title |-> Undef, blocks |-> blocks],
                          quick, caret)

(***************************************************************************)
(* The sessions and the transport between them.  The editor submits        *)
(* [blocks] alone (index.js:122); the first session shares                 *)
(* [title: '', blocks] (index.js:112).  The editor calls startSharing and  *)
(* connect while the session is not on, and its edits are spaced further   *)
(* apart than the capture timeout of the undo manager; the selection stays *)
(* where it is.                                                            *)
(***************************************************************************)
SharedTrees == {<<Leaf("x", 0)>>, <<Leaf("y", 0), Leaf("x", 0)>>}

\* a session starts an operation while the transport holds fewer than
\* MaxInFlight messages
Ready == BagCardinality(net) < MaxInFlight

Share == \E s \in Clients, t \in SharedTrees :
            /\ Ready /\ state[s] # "on" /\ count.edits < MaxEdits
            /\ startSharing(s, [title |-> "", blocks |-> t], selection[s])
            /\ UNCHANGED <<selection, lvars>>

Edit == \E s \in Clients, t \in SharedTrees :
            /\ Ready /\ state[s] = "on" /\ count.edits < MaxEdits
            /\ applyChangesToYjs(s, t, FALSE, selection[s])
            /\ UNCHANGED <<selection, lvars>>

Connect == \E s \in Clients :
            /\ Ready /\ state[s] # "on" /\ count.connects < MaxConnects /\ connect(s)
            /\ UNCHANGED <<selection, lvars>>

Disconnect == \E s \in Clients :
            /\ Ready /\ state[s] # "off" /\ count.disconnects < MaxDisconnects
            /\ disconnect(s)
            /\ UNCHANGED <<selection, lvars>>

Deliver == \E s \in Clients : \E e \in BagToSet(net) :
            e.to = s /\ receiveMessage(s, e.message) /\ UNCHANGED <<selection, lvars>>

Next == Share \/ Edit \/ Connect \/ Disconnect \/ Deliver

Spec == Init /\ [][Next]_vars

(***************************************************************************)
(* The sessions when the operations are also called in the states that     *)
(* reject them, the editor also submits edits while the session is not     *)
(* on, and the channel also carries messages of another protocol.          *)
(***************************************************************************)
\* fewer than MaxErrors rejected calls, ignored edits and stray messages so far
Sound == count.errors + count.ignored + count.strays < MaxErrors

ConnectWhileOn == \E s \in Clients :
    Ready /\ state[s] = "on" /\ Sound /\ connect(s) /\ UNCHANGED <<selection, lvars>>

ShareWhileOn == \E s \in Clients, t \in SharedTrees :
    /\ Ready /\ state[s] = "on" /\ Sound
    /\ startSharing(s, [title |-> "", blocks |-> t], selection[s])
    /\ UNCHANGED <<selection, lvars>>

ApplyWhileNotOn == \E s \in Clients, t \in SharedTrees :
    /\ Ready /\ state[s] # "on" /\ Sound
    /\ applyDataChanges(s, "applyDataChanges", [title |-> Undef, blocks |-> t], FALSE,
                        selection[s])
    /\ UNCHANGED <<selection, lvars>>

IgnoredEdit == \E s \in Clients, t \in SharedTrees :
    /\ Ready /\ state[s] # "on" /\ Sound
    /\ applyChangesToYjs(s, t, FALSE, selection[s])
    /\ UNCHANGED <<selection, lvars>>

\* a message whose protocol tag is not 'yjs1'
StrayMessage == [Message("syncUpdate", Undef, Undef, FALSE, NoSV, encodeArray(NoUpdate))
                    EXCEPT !.protocol = "yjs0"]

\* the transport hands a session a message of another protocol
Stray == \E s \in Clients :
    /\ Ready /\ Sound
    /\ net' = net (+) SetToBag({[to |-> s, message |-> StrayMessage]})
    /\ count' = [count EXCEPT !.strays = @ + 1]
    /\ ev' = Event(s, "stray", "", "", FALSE, FALSE, NoSelection)
    /\ UNCHANGED <<state, doc, last, connAt, undoManager, selection, trail, lvars>>

NextCalls ==
    \/ Share \/ Edit \/ Connect \/ Disconnect \/ Deliver
    \/ ConnectWhileOn \/ ShareWhileOn \/ ApplyWhileNotOn \/ IgnoredEdit \/ Stray

SpecCalls == Init /\ [][NextCalls]_vars

(***************************************************************************)
(* A session with its user: the user places the caret and types, and calls *)
(* undo and redo; an edit may come within the capture timeout of the       *)
(* previous one.  The user acts when the transport has delivered what it   *)
(* was handed; the peer's user is idle.                                    *)
(***************************************************************************)
\* the sessions whose user is at work
Users == {"B"}

Quiet == net = EmptyBag

\* the selection after the user placed the caret to type
nextSelection(sel) == IF sel \in {NoSelection, "S0"} THEN "S1" ELSE "S2"

\* the first session starts sharing, its caret placed in the content or not
UShare == \E s \in Users, t \in SharedTrees, sel \in {NoSelection, "S0"} :
    /\ Quiet /\ state[s] # "on" /\ count.edits < MaxTyped
    /\ selection[s] = NoSelection
    /\ selection' = [selection EXCEPT ![s] = sel]
    /\ startSharing(s, [title |-> "", blocks |-> t], sel)
    /\ UNCHANGED lvars

Type == \E s \in Users, t \in SharedTrees, quick \in BOOLEAN :
    /\ Quiet /\ state[s] = "on" /\ count.edits < MaxTyped
    /\ selection' = [selection EXCEPT ![s] = nextSelection(@)]
    /\ applyChangesToYjs(s, t, quick, nextSelection(selection[s]))
    /\ UNCHANGED lvars

Undo == \E s \in Users : Quiet /\ count.undos < MaxUndos /\ undo(s) /\ UNCHANGED lvars

Redo == \E s \in Users : Quiet /\ count.undos < MaxUndos /\ redo(s) /\ UNCHANGED lvars

UConnect == \E s \in Users :
    /\ Quiet /\ state[s] # "on" /\ count.connects < MaxConnects /\ connect(s)
    /\ UNCHANGED <<selection, lvars>>

UDisconnect == \E s \in Users :
    /\ Quiet /\ state[s] # "off" /\ count.disconnects < MaxDisconnects /\ disconnect(s)
    /\ UNCHANGED <<selection, lvars>>

NextUndo == UShare \/ Type \/ UConnect \/ UDisconnect \/ Deliver \/ Undo \/ Redo

SpecUndo == Init /\ [][NextUndo]_vars

(***************************************************************************)
(* A session with its user and a peer whose user is at work too: the peer  *)
(* starts sharing and edits, the session joins, and its user types, undoes *)
(* and redoes.                                                             *)
(***************************************************************************)
\* the trees the peer's editor submits
PeerTrees == SharedTrees \cup {<<Leaf("x", 1)>>, <<Leaf("y", 1), Leaf("x", 0)>>}

PeerShare == \E s \in Clients \ Users, t \in SharedTrees :
    /\ Quiet /\ state[s] # "on" /\ count.edits < MaxTyped
    /\ startSharing(s, [title |-> "", blocks |-> t], selection[s])
    /\ UNCHANGED <<selection, lvars>>

PeerEdit == \E s \in Clients \ Users, t \in PeerTrees :
    /\ Quiet /\ state[s] = "on" /\ count.edits < MaxTyped
    /\ applyChangesToYjs(s, t, FALSE, selection[s])
    /\ UNCHANGED <<selection, lvars>>

NextPeers == PeerShare \/ PeerEdit \/ UConnect \/ Type \/ Deliver \/ Undo \/ Redo

SpecPeers == Init /\ [][NextPeers]_vars

(***************************************************************************)
(* Three sessions on one channel.  The first in the channel, A, has        *)
(* started sharing while it was alone; the others join, each by one        *)
(* connect(), and nobody edits.  The transport hands every message to      *)
(* every other session, so that sessions also receive handshake messages   *)
(* addressed to others.                                                    *)
(***************************************************************************)
Originator == "A"

InitJoin ==
    /\ state = [s \in Trio |-> IF s = Originator THEN "on" ELSE "off"]
    /\ \E t \in SharedTrees :
       \E data \in {[title |-> "", blocks |-> t]} :
       \E e \in {updatePostDoc(EmptyDoc, clientID(Originator), data)} :
       \E um \in {captureTransaction(setupUndoManagerOnReady(NoUndoManager, "on"),
                                     Originator, Originator, EmptyDoc, e, "edit", FALSE,
                                     NoSelection)} :
          /\ doc = [s \in Clients |-> IF s = Originator THEN e ELSE EmptyDoc]
          /\ last = [s |-> Originator, data |-> data, prev |-> NoData,
                     before |-> EmptyDoc, writes |-> Writes(EmptyDoc, e), n |-> 1]
          /\ undoManager = [s \in Clients |-> IF s = Originator THEN um
                                               ELSE NoUndoManager]
          /\ trail = [s \in Clients |->
                         IF s = Originator
                         THEN stackItemAdded(<<>>, um.undoStack, "undo") ELSE <<>>]
    /\ net = EmptyBag
    /\ connAt = [s \in Clients |-> -1]
    /\ count = [NoCount EXCEPT !.edits = 1]
    /\ selection = [s \in Clients |-> NoSelection]
    /\ ev = Event(Originator, "startSharing", Originator, "", TRUE, FALSE, NoSelection)
    /\ InitListeners

\* a session that is not the first in the channel calls connect(), once
Join == \E s \in Clients \ {Originator} :
    /\ connAt[s] < 0 /\ state[s] # "on" /\ connect(s)
    /\ UNCHANGED <<selection, lvars>>

\* the message e is a handshake message addressed to another session than
\* the one it is handed to
Misrouted(e) ==
    /\ e.message.protocol = "yjs1"
    /\ \/ e.message.messageType = "sync1" /\ e.message.destination \notin {Undef, e.to}
       \/ e.message.messageType = "sync2" /\ e.message.destination # e.to

\* the transport hands a message to a session; the copies of a handshake
\* message that reach the sessions it is not addressed to are handed over
\* before any other message
DeliverJoin == \E s \in Clients : \E e \in BagToSet(net) :
    /\ (\E x \in BagToSet(net) : Misrouted(x)) => Misrouted(e)
    /\ e.to = s /\ receiveMessage(s, e.message) /\ UNCHANGED <<selection, lvars>>

NextJoin == Join \/ DeliverJoin

SpecJoin == InitJoin /\ [][NextJoin]_vars

(***************************************************************************)
(* The callers of one document's listener lists: they register listeners   *)
(* and call the disposers they were handed, between the walks and from     *)
(* within a listener a walk is calling.  The undo manager's own state      *)
(* listener changes no list.                                               *)
(***************************************************************************)
Walking == forEach.list # "none"

Disposals == Len(arrays) - 2

CanRegister == Len(disposers) < MaxListeners

CanDispose == Disposals < MaxDisposals

registerAny ==
    \E listener \in Callbacks : onRemoteDataChange(listener) \/ onStateChange(listener)

Register == ~Walking /\ CanRegister /\ registerAny /\ UNCHANGED <<forEach, svars>>

Dispose == \E d \in DOMAIN disposers :
    ~Walking /\ CanDispose /\ dispose(d) /\ UNCHANGED <<forEach, svars>>

Dispatch == \E list \in Lists :
    /\ ~Walking /\ forEach.n < MaxDispatches
    /\ forEachStart(list)
    /\ UNCHANGED <<arrays, listeners, stateListeners, disposers, svars>>

Walked == forEach.k > forEach.len

Call ==
    /\ Walking /\ ~Walked /\ forEachCall
    /\ UNCHANGED <<arrays, listeners, stateListeners, disposers, svars>>

CallRegister ==
    /\ Walking /\ ~Walked /\ arrays[forEach.array][forEach.k] \in Callbacks
    /\ CanRegister /\ forEachCall /\ registerAny
    /\ UNCHANGED svars

CallDispose == \E d \in DOMAIN disposers :
    /\ Walking /\ ~Walked /\ arrays[forEach.array][forEach.k] \in Callbacks
    /\ CanDispose /\ forEachCall /\ dispose(d)
    /\ UNCHANGED svars

Return ==
    /\ Walking /\ Walked
    /\ forEach' = [forEach EXCEPT !.list = "none"]
    /\ UNCHANGED <<arrays, listeners, stateListeners, disposers, svars>>

NextListeners ==
    Register \/ Dispose \/ Dispatch \/ Call \/ CallRegister \/ CallDispose \/ Return

SpecListeners == Init /\ [][NextListeners]_vars

(***************************************************************************)
(* The codec alone: updatePostDoc applied to one document, in one          *)
(* transaction per call.                                                   *)
(***************************************************************************)
Encode(s, data) ==
    \E e \in {updatePostDoc(doc[s], clientID(s), data)} :
        /\ doc' = [doc EXCEPT ![s] = e]
        /\ last' = [s |-> s, data |-> data, prev |-> last.data, before |-> doc[s],
                    writes |-> Writes(doc[s], e), n |-> last.n + 1]
        /\ UNCHANGED <<state, net, connAt, count, undoManager, selection, ev, trail, lvars>>

EncodeFirst == \E t \in AllTrees : last.n = 0 /\ Encode("A", [title |-> "", blocks |-> t])

EncodeAgain ==
    \E t \in EditTrees : last.n < MaxEncodes /\ Encode("A", [title |-> "", blocks |-> t])

NextRoundTrip == EncodeFirst

SpecRoundTrip == Init /\ [][NextRoundTrip]_vars

NextCodec == EncodeAgain

SpecCodec == Init /\ [][NextCodec]_vars

decode(d) == postDocToObject(d).blocks

(***************************************************************************)
(* The order-list step of updateBlocksDoc alone: a store holding one order *)
(* list, and the diff against a new id sequence applied to it.             *)
(***************************************************************************)
IdSeqs == UNION {[1..k -> Ids] : k \in 0..MaxLen}

\* a store whose order list holds old
orderDoc(old) == ArrInsert(EmptyDoc, clientID("A"), RootPost, 0, old)

InitDiff ==
    /\ state = [s \in Pair |-> "off"]
    /\ \E old \in IdSeqs : doc = [s \in Clients |-> IF s = "A" THEN orderDoc(old) ELSE EmptyDoc]
    /\ net = EmptyBag
    /\ last = NoLast
    /\ connAt = [s \in Clients |-> -1]
    /\ count = NoCount
    /\ undoManager = [s \in Clients |-> NoUndoManager]
    /\ selection = [s \in Clients |-> NoSelection]
    /\ ev = NoEvent
    /\ trail = [s \in Clients |-> <<>>]
    /\ InitListeners

\* a faulty application: the insert is made before the delete
applyOrderDiffInsertFirst(d, c, order, orderDiff) ==
    ArrDelete(ArrInsert(d, c, order, orderDiff.index, orderDiff.insert),
              order, orderDiff.index, orderDiff.remove)

\* order.delete( orderDiff.index, orderDiff.remove );
\* order.insert( orderDiff.index, orderDiff.insert );
applyOrderDiff(d, c, order, orderDiff) ==
    ArrInsert(ArrDelete(d, order, orderDiff.index, orderDiff.remove),
              c, order, orderDiff.index, orderDiff.insert)

UpdateOrder ==
    \E new \in IdSeqs :
        /\ last.n = 0
        /\ \E e \in {applyOrderDiff(doc["A"], clientID("A"), RootPost,
                                    simpleDiffArray(ArrToArray(doc["A"], RootPost), new))} :
              /\ doc' = [doc EXCEPT !["A"] = e]
              /\ last' = [s |-> "A",
                          data |-> [title |-> Undef,
                                    blocks |-> [j \in 1..Len(new) |-> Leaf(new[j], 0)]],
                          prev |-> last.data, before |-> doc["A"],
                          writes |-> Writes(doc["A"], e), n |-> 1]
        /\ UNCHANGED <<state, net, connAt, count, undoManager, selection, ev, trail, lvars>>

NextDiff == UpdateOrder

SpecDiff == InitDiff /\ [][NextDiff]_vars

(***************************************************************************)
(* The sessions when neither side disconnects and the transport delivers   *)
(* every message it was handed.                                            *)
(***************************************************************************)
NextLive == Share \/ Edit \/ Connect \/ Deliver

SpecLive == Init /\ [][NextLive]_vars /\ WF_vars(Deliver)

(***************************************************************************)
(* Properties of the sync protocol.                                        *)
(***************************************************************************)
\* a handshake was started and nothing is left to deliver: every
\* sync-request, sync-response and update-broadcast emitted has been received
Quiescent == count.connects >= 1 /\ net = EmptyBag

\* C1 -- Convergence: for any two sessions, whatever the interleaving of
\* their local edits and of the deliveries, once a handshake has completed and
\* every emitted message has been delivered, both documents decode to the
\* same tree.
Convergence ==
    Quiescent => \A a, b \in Clients : decode(doc[a]) = decode(doc[b])

\* C1 witness: two sessions joined by a handshake have both edited, the
\* second edit made on a document that had not received the first one, and
\* everything has been delivered.
ConvergenceWitness ==
    /\ Quiescent
    /\ \A s \in Clients : state[s] = "on"
    /\ count.edits = 2 /\ last.n = 2 /\ last.before = EmptyDoc
    /\ decode(doc["A"]) # <<>>

\* the join scenario: a shared its tree (the only edit so far), then b
\* called connect() (the only connect so far), and nobody disconnected
Joined(a, b) ==
    /\ a # b
    /\ count.edits = 1 /\ last.s = a /\ state[a] = "on"
    /\ count.connects = 1 /\ connAt[b] = 1
    /\ count.disconnects = 0

\* b's sync-request has been delivered to a and a's sync-response to b
RoundTripDone(a, b) ==
    \A e \in BagToSet(net) :
        /\ ~(e.to = a /\ e.message.messageType = "sync1" /\ e.message.origin = b)
        /\ ~(e.to = b /\ e.message.messageType = "sync2")

\* C2 -- Join scenario: a has called startSharing with tree T, then b calls
\* connect(); once b's sync-request has reached a and a's sync-response has
\* reached b, b is in state on and b's document decodes to exactly T.
JoinScenario ==
    \A a, b \in Clients :
        (Joined(a, b) /\ RoundTripDone(a, b)) =>
            /\ state[b] = "on"
            /\ decode(doc[b]) = last.data.blocks

\* C2 witness: the scenario has run to the end of the round trip with a
\* two-block tree, while a's reply request to b is still in flight.
JoinScenarioWitness ==
    /\ Joined("A", "B") /\ RoundTripDone("A", "B")
    /\ state["B"] = "on"
    /\ Len(last.data.blocks) = 2
    /\ \E e \in BagToSet(net) : e.to = "B" /\ e.message.messageType = "sync1"

\* a sync-request that is not a reply is on its way to a session that is
\* off or connecting
RequestPending ==
    \E e \in BagToSet(net) :
        /\ e.message.messageType = "sync1" /\ ~e.message.isReply
        /\ state[e.to] \in {"off", "connecting"}

AllOn == \A s \in Clients : state[s] = "on"

\* C3 -- Two-sided handshake liveness: when b has called connect() and its
\* sync-request is on its way to a session that is off or connecting, then,
\* every message being eventually delivered and nobody disconnecting,
\* eventually both sessions are in state on.
HandshakeLiveness == RequestPending ~> AllOn

\* C3 witness: both sessions are on after a single connect() and without
\* any startSharing: the session that initiated nothing was brought to on by
\* the reply request.
HandshakeLivenessWitness ==
    /\ AllOn
    /\ count.connects = 1 /\ count.edits = 0
    /\ net = EmptyBag

(***************************************************************************)
(* Reading the tree encoding: a parent's order list and the content map.   *)
(***************************************************************************)
Parents == {""} \cup Ids

blocksOf(d) == MapItem(d, RootPost, "blocks").id

\* yDocBlocks.get( 'order' ).get( clientId ).toArray(), empty when absent
orderOf(d, parent) ==
    LET orderMap == MapItem(d, blocksOf(d), "order").id
    IN  IF MapHas(d, orderMap, parent)
        THEN ArrToArray(d, MapItem(d, orderMap, parent).id) ELSE <<>>

\* yDocBlocks.get( 'byClientId' ).has( id )
hasContent(d, id) == MapHas(d, MapItem(d, blocksOf(d), "byClientId").id, id)

\* the inner blocks of the block parent of a tree
RECURSIVE innerOf(_, _)
innerOf(blocks, parent) ==
    IF blocks = <<>> THEN <<>>
    ELSE IF Head(blocks).clientId = parent THEN Head(blocks).innerBlocks
    ELSE IF innerOf(Head(blocks).innerBlocks, parent) # <<>>
         THEN innerOf(Head(blocks).innerBlocks, parent)
         ELSE innerOf(Tail(blocks), parent)

\* the ids of the children of parent in a tree ("" is the root)
childIds(blocks, parent) ==
    LET b == IF parent = "" THEN blocks ELSE innerOf(blocks, parent)
    IN  [j \in 1..Len(b) |-> b[j].clientId]

(***************************************************************************)
(* Properties of the tree codec.                                           *)
(***************************************************************************)
\* C4 -- Round-trip from an empty store: for every well-formed tree T,
\* encoding T into an empty store and decoding the store yields exactly T
\* (same ids, order, attributes and nesting).
RoundTripFromEmpty ==
    last.n = 1 => decode(doc["A"]) = last.data.blocks

\* C4 witness: a tree nested three levels deep, with a changed attribute,
\* has been encoded into the empty store and decodes to itself.
RoundTripFromEmptyWitness ==
    /\ last.n = 1 /\ last.before = EmptyDoc
    /\ Len(last.data.blocks) = 1
    /\ last.data.blocks[1].attrs = 1
    /\ last.data.blocks[1].innerBlocks # <<>>
    /\ last.data.blocks[1].innerBlocks[1].innerBlocks # <<>>
    /\ decode(doc["A"]) = last.data.blocks

\* C5 -- Round-trip law on a non-empty store: after any sequence of encodes
\* of well-formed trees on the same store (blocks moving between parents or
\* removed included), decode returns the tree of the most recent encode.
RoundTripLaw ==
    last.n >= 1 => decode(doc["A"]) = last.data.blocks

\* C6 -- Encoding invariant: after each completed encode, every id present in
\* any parent's order list has an entry in the content-by-id map.
EncodingInvariant ==
    last.n >= 1 =>
        \A p \in Parents : \A j \in 1..Len(orderOf(doc["A"], p)) :
            hasContent(doc["A"], orderOf(doc["A"], p)[j])

\* C7 -- Garbage collection on delete: when an encode removes an id from a
\* parent's order list and the new tree holds that id under no parent, the
\* content-by-id map has no entry for it after the encode, whatever the
\* position the id had in the old order list.
GCOnDelete ==
    last.n >= 1 =>
        \A i \in Ids, p \in Parents :
            (/\ includes(orderOf(last.before, p), i)
             /\ ~includes(orderOf(doc["A"], p), i)
             /\ i \notin IdsOf(last.data.blocks))
            => ~hasContent(doc["A"], i)

\* C8 -- GC on reorder: when an encode moves a child from parent P (a parent
\* that is still part of the tree) to parent Q, in either direction of the
\* tree, the child's content entry is present after the encode, the child is
\* listed in Q's order list and not in P's; and content is deleted only when
\* its id no longer appears in the new tree.
GCOnReorder ==
    last.n >= 1 =>
        /\ \A i \in Ids, P \in Parents, Q \in Parents :
               (/\ P # Q
                /\ P \in {""} \cup IdsOf(last.data.blocks)
                /\ includes(orderOf(last.before, P), i)
                /\ includes(childIds(last.data.blocks, Q), i))
               => /\ hasContent(doc["A"], i)
                  /\ includes(orderOf(doc["A"], Q), i)
                  /\ ~includes(orderOf(doc["A"], P), i)
        /\ \A i \in Ids :
               (hasContent(last.before, i) /\ ~hasContent(doc["A"], i))
               => i \notin IdsOf(last.data.blocks)

\* C9 -- Write suppression: encoding again the tree that was encoded last
\* performs no write on the store (so that a second applyDataChanges with
\* unchanged content emits no change event and no update-broadcast).
WriteSuppression ==
    (last.n >= 2 /\ last.prev = last.data) => last.writes = 0

(***************************************************************************)
(* Properties of the diff engine.                                          *)
(***************************************************************************)
\* C10 -- Diff correctness: for all id sequences old and new, empty ones
\* included, the result [index, remove, insert] has remove >= 0 and
\* index + remove <= Len(old), and removing remove elements at index from old
\* and inserting insert at index yields exactly new, on the sequences and on
\* the order list the codec applies it to.
DiffCorrect ==
    last.n = 1 =>
        LET old == ArrToArray(last.before, RootPost)
            new == [j \in 1..Len(last.data.blocks) |-> last.data.blocks[j].clientId]
            r   == simpleDiffArray(old, new)
        IN  /\ r.index >= 0 /\ r.remove >= 0
            /\ r.index + r.remove <= Len(old)
            /\ SubSeq(old, 1, r.index) \o r.insert
                   \o SubSeq(old, r.index + r.remove + 1, Len(old)) = new
            /\ ArrToArray(doc["A"], RootPost) = new

\* C10 witness: a diff that keeps a prefix and a suffix and both removes and
\* inserts in between has been applied.
DiffCorrectWitness ==
    /\ last.n = 1
    /\ ArrToArray(last.before, RootPost) = <<"x", "y", "z">>
    /\ ArrToArray(doc["A"], RootPost) = <<"x", "x", "z">>
    /\ simpleDiffArray(<<"x", "y", "z">>, <<"x", "x", "z">>)
           = [index |-> 1, remove |-> 1, insert |-> <<"x">>]

\* the reordering scenario: old = [b1, b2, b3], new = [b2, b3, b1], with
\* b1 = x, b2 = y, b3 = z, has been given to the diff and applied
ReorderScenario ==
    /\ last.n = 1
    /\ ArrToArray(last.before, RootPost) = <<"x", "y", "z">>
    /\ [j \in 1..Len(last.data.blocks) |-> last.data.blocks[j].clientId] = <<"y", "z", "x">>

\* C11 as stated -- Diff scenario: for old = [b1, b2, b3] and new =
\* [b2, b3, b1] the diff engine returns [index 0, remove 1, insert [b2, b3]].
DiffScenarioStated ==
    ReorderScenario =>
        simpleDiffArray(<<"x", "y", "z">>, <<"y", "z", "x">>)
            = [index |-> 0, remove |-> 1, insert |-> <<"y", "z">>]

\* C11 amended -- Diff scenario: for old = [b1, b2, b3] and new =
\* [b2, b3, b1] the two sequences share neither a prefix nor a suffix, so the
\* diff engine returns [index 0, remove 3, insert [b2, b3, b1]], and applying
\* it to the order list yields new.
DiffScenario ==
    ReorderScenario =>
        /\ simpleDiffArray(<<"x", "y", "z">>, <<"y", "z", "x">>)
               = [index |-> 0, remove |-> 3, insert |-> <<"y", "z", "x">>]
        /\ ArrToArray(doc["A"], RootPost) = <<"y", "z", "x">>

\* C11 witness: the reordering has been applied to the order list.
DiffScenarioWitness ==
    ReorderScenario /\ ArrToArray(doc["A"], RootPost) = <<"y", "z", "x">>

(***************************************************************************)
(* Properties of the operations' failure behaviour.                        *)
(***************************************************************************)
\* the messages of a type handed to the transport in a step
Emitted(type) ==
    {e \in BagToSet(net') : /\ e.message.protocol = "yjs1"
                            /\ e.message.messageType = type
                            /\ CopiesIn(e, net') > CopiesIn(e, net)}

\* a step in which session s made a call that its state rejects
InvalidCall(s) ==
    /\ ev'.s = s
    /\ \/ ev'.op \in {"connect", "startSharing"} /\ state[s] = "on"
       \/ ev'.op = "applyDataChanges" /\ state[s] # "on"

\* C12 -- Invalid-state calls fail loudly and change nothing: connect() or
\* startSharing() called while the state is on, and applyDataChanges called
\* while the state is not on, each raise an error to the caller and leave the
\* connection state, the document and the undo manager unchanged and emit no
\* message.
InvalidCallsFail ==
    [][\A s \in Clients :
          InvalidCall(s) =>
              /\ ev'.threw = "wrong state"
              /\ state' = state /\ doc' = doc /\ undoManager' = undoManager
              /\ net' = net]_vars

\* C12 witness: startSharing was called by a session that is on, and raised
\* the error.
InvalidCallsFailWitness ==
    /\ ev.op = "startSharing" /\ ev.threw = "wrong state"
    /\ ev.s \in Clients /\ state[ev.s] = "on"
    /\ doc[ev.s] # EmptyDoc

\* C13 -- A local edit submitted by the editor while the connection state is
\* not on (off, or connecting during the handshake window) is silently
\* ignored: no error is raised, the document is not mutated, no message is
\* emitted, and nothing of the edit is kept that a later step could replay
\* (connection state, document, undo manager, transport and the record of the
\* last encode are all unchanged).
EditIgnoredWhenNotOn ==
    [][\A s \in Clients :
          ev'.s = s /\ ev'.op = "applyChangesToYjs" /\ state[s] # "on" =>
              /\ ev'.threw = ""
              /\ state' = state /\ doc' = doc /\ net' = net
              /\ undoManager' = undoManager /\ last' = last]_vars

\* C13 witness: an edit was submitted during the handshake window and
\* ignored.
EditIgnoredWitness ==
    /\ ev.op = "applyChangesToYjs" /\ ev.threw = ""
    /\ ev.s \in Clients /\ state[ev.s] = "connecting"

\* C14 as stated -- A received message whose protocol tag is not the expected
\* value is dropped silently: receiving it raises no error to the caller, the
\* connection state and the document are unchanged and no message is emitted.
WrongProtocolDropped ==
    [][\A e \in BagToSet(net) :
          e.message.protocol # "yjs1" /\ ev'.s = e.to /\ ev'.op = "receiveMessage" =>
              /\ ev'.threw = ""
              /\ state' = state /\ doc' = doc
              /\ net' = net (-) SetToBag({e})]_vars

\* what does hold of such a message: the session's state and document are
\* unchanged, nothing is emitted, and the error is raised to the caller
WrongProtocolThrown ==
    [][\A e \in BagToSet(net) :
          e.message.protocol # "yjs1" /\ ev'.s = e.to /\ ev'.op = "receiveMessage" =>
              /\ ev'.threw = "wrong protocol"
              /\ state' = state /\ doc' = doc
              /\ net' = net (-) SetToBag({e})]_vars

\* C15 -- Connection-state lifecycle: the state is always one of off,
\* connecting, on and starts as off; a step that sets the state to connecting
\* starts from off or connecting, never from on.
Lifecycle ==
    /\ \A s \in Clients : state[s] = "off"
    /\ [](\A s \in Clients : state[s] \in {"off", "connecting", "on"})
    /\ [][\A s \in Clients :
             state'[s] = "connecting" => state[s] \in {"off", "connecting"}]_vars

\* C15 witness: a session that has been on is connecting again, after a
\* disconnect.
LifecycleWitness ==
    \E s \in Clients :
        state[s] = "connecting" /\ undoManager[s].made /\ count.disconnects > 0

(***************************************************************************)
(* Properties of the handshake messages.                                   *)
(***************************************************************************)
\* a step in which the session e.to received the message e
Received(e) ==
    /\ ev'.s = e.to /\ ev'.op = e.message.messageType
    /\ CopiesIn(e, net') = CopiesIn(e, net) - 1

\* exactly one message of the type was handed to the transport, and it is m
EmittedOnly(type, m) ==
    /\ Cardinality(Emitted(type)) = 1
    /\ \A x \in Emitted(type) :
          x.message = m /\ CopiesIn(x, net') = CopiesIn(x, net) + 1

\* C20 -- Sync-request handling terminates: on a sync-request addressed to it
\* or carrying no destination a session emits exactly one sync-response
\* addressed to the sender, and its own sync-request (addressed to the sender,
\* marked as reply) only when the incoming request was not itself a reply;
\* hence every connect() between two sessions produces exactly two
\* sync-requests and two sync-responses and no further handshake message.
SyncRequestHandling ==
    /\ [][\A e \in BagToSet(net) :
             /\ e.message.protocol = "yjs1" /\ e.message.messageType = "sync1"
             /\ e.message.destination \in {Undef, e.to}
             /\ Received(e)
             => /\ \E m \in {x.message : x \in Emitted("sync2")} :
                      /\ EmittedOnly("sync2", m)
                      /\ m.destination = e.message.origin
                /\ IF e.message.isReply THEN Emitted("sync1") = {}
                   ELSE \E m \in {x.message : x \in Emitted("sync1")} :
                          /\ EmittedOnly("sync1", m)
                          /\ m.destination = e.message.origin /\ m.isReply
                /\ Emitted("syncUpdate") = {}]_vars
    /\ [](/\ count.sync1 <= 2 * count.connects
          /\ count.sync2 <= 2 * count.connects
          /\ (net = EmptyBag => /\ count.sync1 = 2 * count.connects
                                /\ count.sync2 = 2 * count.connects))

\* C20 witness: one connect() was made, its two sync-requests and two
\* sync-responses were emitted and received, and nothing is in flight.
SyncRequestHandlingWitness ==
    /\ count.connects = 1 /\ net = EmptyBag
    /\ count.sync1 = 2 /\ count.sync2 = 2
    /\ ev.op = "sync2"

(***************************************************************************)
(* Properties of undo and redo.                                            *)
(***************************************************************************)
added(type, sel) == [e |-> "added", type |-> type, sel |-> sel]

popped(type, sel) == [e |-> "popped", type |-> type, sel |-> sel]

\* the last n events of session s's trail
Recent(s, n) == SubSeq(trail[s], Len(trail[s]) - n + 1, Len(trail[s]))

\* edit E1 was pushed while the selection was S1, edit E2 while it was S2, and
\* undo was then called twice with no edit merged into E1 or E2 in between,
\* the user leaving the selection where it was (S2 at the first undo, and
\* what that undo restored at the second)
UndoneTwice(s) ==
    /\ Len(trail[s]) >= 6
    /\ \E r1, r2 \in Selections :
          Recent(s, 6) = <<added("undo", "S1"), added("undo", "S2"),
                           added("redo", "S2"), popped("undo", r1),
                           added("redo", IF r1 = NoSelection THEN "S2" ELSE r1),
                           popped("undo", r2)>>

\* E1 and E2 were pushed as above, undo was called once and then redo, the
\* user leaving the selection where it was
UndoneRedone(s) ==
    /\ Len(trail[s]) >= 6
    /\ \E r1, r2 \in Selections :
          Recent(s, 6) = <<added("undo", "S1"), added("undo", "S2"),
                           added("redo", "S2"), popped("undo", r1),
                           added("undo", IF r1 = NoSelection THEN "S2" ELSE r1),
                           popped("redo", r2)>>

\* C16 as stated -- Undo anchoring: after E1 is pushed while the selection is
\* S1 and E2 while it is S2, the selection is S1 after the second undo.
UndoAnchoringStated ==
    \A s \in Clients : UndoneTwice(s) => selection[s] = "S1"

\* C16 amended -- Undo anchoring: after E1 is pushed while the selection is S1
\* and E2 while it is S2, the first undo restores the selection to S1; the
\* second undo restores the selection recorded on the item then on top of the
\* undo stack (the item pushed by startSharing), if that selection has a start
\* position, and otherwise (no start position, or the undo stack is exhausted)
\* restores nothing, so that the selection is still S1; an undo that finds
\* nothing to undo restores nothing; redoing once after the first undo
\* restores the selection the editor had when undo was called, which is S2.
UndoAnchoring ==
    \A s \in Clients :
        /\ UndoneTwice(s) =>
              LET stack == undoManager[s].undoStack
                  below == IF stack = <<>> THEN NoSelection ELSE stack[Len(stack)].caret
              IN  /\ Recent(s, 3)[1] = popped("undo", "S1")
                  /\ Recent(s, 1)[1] = popped("undo", below)
                  /\ selection[s] = IF below # NoSelection THEN below ELSE "S1"
        /\ UndoneRedone(s) =>
              /\ Recent(s, 3)[1] = popped("undo", "S1")
              /\ Recent(s, 1)[1] = popped("redo", "S2")
              /\ selection[s] = "S2"
        /\ ev.s = s /\ ev.op = "undo" /\ ~ev.changed => ev.restored = NoSelection

\* C16 witness: E1 and E2 were undone in a session that started sharing with
\* its caret placed, and the second undo moved the selection to that place.
UndoAnchoringWitness ==
    \E s \in Clients :
        /\ UndoneTwice(s) /\ selection[s] = "S0"
        /\ Len(undoManager[s].undoStack) = 1

\* C17 -- Undo/redo predicates: in every reachable state hasUndo() is true
\* exactly when the undo stack holds more than one item and hasRedo() exactly
\* when the redo stack is non-empty; both are false while no undo manager
\* exists, and the undo manager comes to exist only in a step that makes the
\* session on.
UndoRedoPredicates ==
    /\ [](\A s \in Clients :
             /\ hasUndo(s) <=> Len(undoManager[s].undoStack) > 1
             /\ hasRedo(s) <=> undoManager[s].redoStack # <<>>
             /\ ~undoManager[s].made => ~hasUndo(s) /\ ~hasRedo(s)
             /\ state[s] = "on" => undoManager[s].made)
    /\ \A s \in Clients : ~undoManager[s].made
    /\ [][\A s \in Clients :
             undoManager'[s].made /\ ~undoManager[s].made => state'[s] = "on"]_vars

\* C17 witness: a session with two items on its undo stack and one on its
\* redo stack.
UndoRedoPredicatesWitness ==
    \E s \in Clients :
        /\ Len(undoManager[s].undoStack) = 2 /\ Len(undoManager[s].redoStack) = 1
        /\ hasUndo(s) /\ hasRedo(s)

\* C18 -- Update emission gate: a step emits an update-broadcast if and only
\* if it changed the session's document in a transaction whose origin is the
\* session's identity or the undo manager, and the session is on; so none is
\* emitted while the session is off or connecting, and none by merging a
\* received sync-response or update-broadcast.
EmissionGate ==
    [][/\ Emitted("syncUpdate") # {} <=>
             /\ changedTypes(doc[ev'.s], doc'[ev'.s])
             /\ ev'.origin \in {ev'.s, UndoOrigin}
             /\ state'[ev'.s] = "on"
       /\ Emitted("syncUpdate") # {} => state'[ev'.s] = "on"
       /\ ev'.op \in {"sync2", "syncUpdate"} => Emitted("syncUpdate") = {}]_vars

\* C18 witness: a redo made in state on was broadcast.
EmissionGateWitness ==
    /\ ev.op = "redo" /\ ev.changed /\ ev.s \in Clients /\ state[ev.s] = "on"
    /\ \E e \in BagToSet(net) : e.to # ev.s /\ e.message.messageType = "syncUpdate"

\* C19 -- Publish-to-editor rule: the decoded tree is handed to the change
\* listeners for a document change if and only if the origin of the change is
\* not the session's identity; changes made by applyDataChanges and
\* startSharing are never published, remote merges that change the document
\* are published in any connection state, and a change made by undo or redo
\* in state on is both broadcast and published.
PublishRule ==
    [][/\ ev'.published <=>
             changedTypes(doc[ev'.s], doc'[ev'.s]) /\ ev'.origin # ev'.s
       /\ ev'.op \in {"applyDataChanges", "applyChangesToYjs", "startSharing"} =>
             ~ev'.published
       /\ ev'.op \in {"sync2", "syncUpdate"} /\ changedTypes(doc[ev'.s], doc'[ev'.s]) =>
             ev'.published
       /\ ev'.op \in {"undo", "redo"} /\ changedTypes(doc[ev'.s], doc'[ev'.s])
             /\ state[ev'.s] = "on" =>
             ev'.published /\ Emitted("syncUpdate") # {}]_vars

\* C19 witness: an undo made in state on was published and broadcast.
PublishRuleWitness ==
    /\ ev.op = "undo" /\ ev.published /\ ev.s \in Clients /\ state[ev.s] = "on"
    /\ \E e \in BagToSet(net) : e.to # ev.s /\ e.message.messageType = "syncUpdate"

(***************************************************************************)
(* Properties of disconnect.                                               *)
(***************************************************************************)
\* session s was connecting or on and is off: it has called disconnect() and
\* neither connect() nor startSharing() since
Disconnected(s) == state[s] = "off" /\ (connAt[s] >= 0 \/ undoManager[s].made)

\* C22 -- Disconnect is final until the caller reconnects: a disconnect() of
\* session s leaves s off, from any state, and a session that is off
\* after such a call leaves that state only in a step in which its caller
\* invokes connect() or startSharing(), never in a step that receives a
\* message.
DisconnectFinal ==
    [][\A s \in Clients :
          /\ count'.disconnects # count.disconnects /\ ev'.s = s => state'[s] = "off"
          /\ Disconnected(s) /\ state'[s] # "off" =>
                ev'.s = s /\ ev'.op \in {"connect", "startSharing"}]_vars

\* disconnect() leaves the session off from any state (the part of C22 that
\* holds)
DisconnectImmediate ==
    [][\A s \in Clients :
          count'.disconnects # count.disconnects /\ ev'.s = s => state'[s] = "off"]_vars

\* a session disconnected while its handshake was outstanding is on again,
\* put there by the late sync-response
LateResponse ==
    \E s \in Clients :
        /\ count.disconnects = 1 /\ count.connects = 1 /\ connAt[s] >= 0
        /\ ev = Event(s, "sync2", Undef, "", ev.changed, ev.published, NoSelection)
        /\ state[s] = "on"

(***************************************************************************)
(* Properties of the undo stack.                                           *)
(***************************************************************************)
\* C25 -- The baseline item is not undoable: an undo() called while the undo
\* stack holds exactly one item (hasUndo() is false) changes neither the
\* document nor the undo stack nor the redo stack and emits no
\* update-broadcast.
BaselineNotUndoable ==
    [][\A s \in Clients :
          /\ count'.undos # count.undos /\ ev'.s = s /\ ev'.op = "undo"
          /\ undoManager[s].made /\ Len(undoManager[s].undoStack) = 1
          => /\ ~hasUndo(s)
             /\ doc'[s] = doc[s]
             /\ undoManager'[s] = undoManager[s]
             /\ Emitted("syncUpdate") = {}]_vars

\* C24 -- Selection restore rule on stack traversal: when undo pops an item,
\* the selection restored is the one stored on the item then on top of the
\* undo stack, and none if the undo stack is then empty; when redo pops an
\* item, the selection restored is the one stored on the popped item when it
\* was added; a selection without a start position is not restored (the
\* editor's selection stays), and nothing is restored when no item is popped.
SelectionRestoreRule ==
    [][\A s \in Clients :
          count'.undos # count.undos /\ ev'.s = s /\ undoManager[s].made =>
             IF trail'[s] = trail[s]
             THEN ev'.restored = NoSelection /\ selection'[s] = selection[s]
             ELSE LET undoStack == undoManager'[s].undoStack
                      redoStack == undoManager[s].redoStack
                      ref == IF ev'.op = "undo"
                             THEN (IF undoStack = <<>> THEN NoStackItem
                                   ELSE undoStack[Len(undoStack)])
                             ELSE redoStack[Len(undoManager'[s].redoStack) + 1]
                  IN  /\ Recent(s, 1)[1]' = popped(ev'.op, ref.caret)
                      /\ ev'.restored = ref.caret
                      /\ selection'[s] = IF ref.caret # NoSelection THEN ref.caret
                                         ELSE selection[s]]_vars

\* C24 witness: a redo popped the item added by the undo of an edit made at
\* S2, while the selection was S1, and restored S2.
SelectionRestoreWitness ==
    \E s \in Clients :
        /\ Len(trail[s]) >= 3
        /\ Recent(s, 3) = <<popped("undo", "S1"), added("undo", "S1"),
                            popped("redo", "S2")>>
        /\ ev.op = "redo" /\ ev.restored = "S2" /\ selection[s] = "S2"

\* the items of document d created by session s, with all they contain
OwnItems(d, s) == Subtree(d, {i \in AllIds(d) : i[1] = clientID(s)})

MisroutedIgnored ==
    [][\A e \in BagToSet(net) :
          Misrouted(e) /\ Received(e) =>
             /\ state' = state /\ doc' = doc /\ undoManager' = undoManager
             /\ net' = net (-) SetToBag({e})
             /\ ~ev'.published /\ ~ev'.changed]_vars

\* C21 witness: a session that is still connecting, its document empty, has
\* just been handed a sync-response addressed to another session.
MisroutedIgnoredWitness ==
    \E s \in Clients :
        /\ ev = Event(s, "sync2", "", "", FALSE, FALSE, NoSelection)
        /\ state[s] = "connecting" /\ doc[s] = EmptyDoc
        /\ count.sync2 >= 1

\* C23 -- A joiner is on only once it holds the shared content: with one
\* originator that called startSharing with tree T and the other sessions
\* joining by connect(), nobody editing, once every joiner has called
\* connect() a joining session in state on holds a document that decodes to
\* T.
JoinerHoldsContent ==
    (\A j \in Clients \ {Originator} : connAt[j] >= 0) =>
        \A s \in Clients \ {Originator} :
            state[s] = "on" => decode(doc[s]) = last.data.blocks

\* the d-th disposer is called
Disposed(d) == d \in DOMAIN disposers /\ disposers'[d].calls = disposers[d].calls + 1

\* the listeners a list holds
Held(list) == arrays[arrayOf(list)]

\* a walk calls, in order, the listeners its list held when it started, and
\* the listener a disposer has just removed is in its list no more
WalkStable ==
    /\ forEach.called = SubSeq(forEach.start, 1, forEach.k - 1)
    /\ ~Walking /\ forEach.n > 0 => forEach.called = forEach.start

WalkStableWitness ==
    /\ ~Walking /\ forEach.n > 0 /\ Len(forEach.called) >= 2
    /\ arrays[forEach.array] # forEach.start
    /\ arrayOf(forEach.list) # forEach.array

RemovedIsGone ==
    [][\A d \in DOMAIN disposers :
          Disposed(d) => disposers[d].listener \notin Range(Held(disposers[d].list)')]_vars

\* C27: the listeners are called as a walk found them when it started, a
\* removed listener is in its list no more, and calling a disposer a second
\* time changes neither list
ListenersTolerateChange ==
    /\ []WalkStable
    /\ RemovedIsGone
    /\ [][\A d \in DOMAIN disposers :
             Disposed(d) /\ disposers[d].calls >= 1 =>
                \A list \in Lists : Held(list)' = Held(list)]_vars

====
